---- MODULE Spec2Model ----
(***************************************************************************)
(* Contribution ledger (PresaleScreen, src/unnamed/part_000) and           *)
(* moderation queue (AdminScreen, src/components/AdminScreen.tsx).         *)
(*                                                                         *)
(* Conventions                                                             *)
(*  - A JavaScript string that the code inspects character by character    *)
(*    (handles, wallets, e-mails) is a sequence of one-character strings.  *)
(*  - An amount of SOL is an integer number of 0.0001 SOL, so that 0.01    *)
(*    is 100, 0.15 is 1500 and toFixed(3) rounds to a multiple of 10.      *)
(*  - An instant is an integer number of milliseconds.                     *)
(*  - A React state change, the re-render it causes and the effects whose  *)
(*    dependencies changed form one step.                                  *)
(***************************************************************************)
EXTENDS Integers, Sequences, FiniteSets, TLC

VARIABLES
    \* ---- PresaleScreen (src/unnamed/part_000) ----
    mounted,        \* the component is mounted
    view,           \* line 24
    loginHandle,    \* line 25
    loginWallet,    \* line 26
    amount,         \* line 27
    txHash,         \* line 28
    history,        \* line 29
    notification,   \* line 30
    detectedCap,    \* line 31
    timeLeft,       \* line 32
    timerActive,    \* the interval of line 36 is set and not cleared
    userData,       \* the parent's userData, passed as a prop (line 23)
    storage,        \* localStorage[STORAGE_KEY] (lines 61, 142, 146)
    uuidSeq,        \* number of UUIDs crypto.randomUUID() has handed out
    now,            \* Date.now()
    \* ---- AdminScreen (src/components/AdminScreen.tsx) ----
    adminEmail,     \* what getAdminEmail() returns (line 32)
    authUser,       \* line 16
    authReady,      \* line 17
    applications,   \* line 18
    actionError,    \* line 19
    toast,          \* line 20
    subscription,   \* the onSnapshot listener of line 43: "none", "live", "failed"
    session,        \* the auth provider's current session
    docs,           \* the Firestore collection 'applications'
    writes,         \* updateDoc calls of line 64 that have not settled yet
    \* ---- a second PresaleScreen, in another tab of the same browser ----
    peerHandle,     \* its userData.handle
    peerHistory,    \* its history (line 29)
    peerSeq,        \* number of submissions it has made
    \* ---- timers and listeners the two screens hold ----
    adminMounted,   \* AdminScreen is mounted
    intervals,      \* intervals set by line 36 of PresaleScreen and not cleared
    listeners,      \* onSnapshot listeners (line 43) that still deliver
    authListeners   \* onAuthStateChanged listeners (line 23) not unsubscribed

presaleVars == <<mounted, view, loginHandle, loginWallet, amount, txHash, history,
                 notification, detectedCap, timeLeft, timerActive, userData,
                 storage, uuidSeq>>
adminVars == <<adminEmail, authUser, authReady, applications, actionError, toast,
               subscription, session, docs, writes>>
peerVars == <<peerHandle, peerHistory, peerSeq>>
resourceVars == <<adminMounted, intervals, listeners, authListeners>>
vars == <<presaleVars, adminVars, peerVars, resourceVars, now>>

(***************************************************************************)
(* Bounds of the model                                                     *)
(***************************************************************************)
\* submissions made in one run, over all handles and mounts
MaxSubmissions == 1
\* submissions the second tab makes in one run
MaxPeerSubmissions == 1
\* documents the environment creates in the 'applications' collection
MaxDocs == 2
\* limit(50) of the query, scaled so that the window can overflow
QueryLimit == 1
\* updateDoc calls that may be outstanding at once
MaxWrites == 1

(***************************************************************************)
(* JavaScript strings                                                      *)
(***************************************************************************)
UPPER == <<"A","B","C","D","E","F","G","H","I","J","K","L","M",
           "N","O","P","Q","R","S","T","U","V","W","X","Y","Z">>
LOWER == <<"a","b","c","d","e","f","g","h","i","j","k","l","m",
           "n","o","p","q","r","s","t","u","v","w","x","y","z">>
DIGITS19 == {"1","2","3","4","5","6","7","8","9"}

Range(s) == {s[i] : i \in DOMAIN s}

Rep(c, n) == [i \in 1..n |-> c]

\* String.prototype.toLowerCase
LowerMap == [c \in Range(UPPER) |-> LOWER[CHOOSE i \in DOMAIN UPPER : UPPER[i] = c]]

LowerChar(c) == IF c \in DOMAIN LowerMap THEN LowerMap[c] ELSE c

ToLowerCase(s) == [i \in DOMAIN s |-> LowerChar(s[i])]

\* String.prototype.trim
RECURSIVE TrimStart(_)
TrimStart(s) == IF s # <<>> /\ Head(s) = " " THEN TrimStart(Tail(s)) ELSE s

RECURSIVE TrimEnd(_)
TrimEnd(s) ==
    IF s # <<>> /\ s[Len(s)] = " " THEN TrimEnd(SubSeq(s, 1, Len(s) - 1)) ELSE s

Trim(s) == TrimEnd(TrimStart(s))

\* s.replace('@', ''): a string pattern replaces the first occurrence only
ReplaceAt(s) ==
    IF \E i \in DOMAIN s : s[i] = "@"
    THEN LET i == CHOOSE k \in DOMAIN s : s[k] = "@" /\ \A j \in 1..(k - 1) : s[j] # "@"
         IN  SubSeq(s, 1, i - 1) \o SubSeq(s, i + 1, Len(s))
    ELSE s

\* s.startsWith('@')
StartsWithAt(s) == s # <<>> /\ Head(s) = "@"

\* SOLANA_ADDRESS_REGEX = /^[1-9A-HJ-NP-Za-km-z]{32,44}$/
Base58 == DIGITS19 \cup (Range(UPPER) \ {"I", "O"}) \cup (Range(LOWER) \ {"l"})

SOLANA_ADDRESS_REGEX(w) == Len(w) \in 32..44 /\ Range(w) \subseteq Base58

(***************************************************************************)
(* MOCK_JUNGLE_DB                                                          *)
(***************************************************************************)
H_monky_king == <<"m","o","n","k","y","_","k","i","n","g">>
H_degen_ape == <<"d","e","g","e","n","_","a","p","e">>
H_sol_surfer == <<"s","o","l","_","s","u","r","f","e","r">>
H_banana_farmer == <<"b","a","n","a","n","a","_","f","a","r","m","e","r">>

W_monky_king == <<"7","x","K","X","9","9","k","R">> \o <<"7","x","K","X","9","9","k","R">>
                \o <<"7","x","K","X","9","9","k","R">> \o <<"7","x","K","X","9","9","k","R">>
                \o <<"7","x","K","X","9","9","k","R">>
W_degen_ape == <<"A","p","e">> \o Rep("1", 37)
W_sol_surfer == <<"S","u","r","f">> \o Rep("2", 36)
W_banana_farmer == <<"F","a","r","m">> \o Rep("3", 36)

MOCK_JUNGLE_DB ==
    (H_monky_king :> [wallet |-> W_monky_king, commit |-> 100000])
    @@ (H_degen_ape :> [wallet |-> W_degen_ape, commit |-> 50000])
    @@ (H_sol_surfer :> [wallet |-> W_sol_surfer, commit |-> 25000])
    @@ (H_banana_farmer :> [wallet |-> W_banana_farmer, commit |-> 8000])

\* All-lowercase property names an object literal inherits from Object.prototype:
\* MOCK_JUNGLE_DB[handle] is truthy for them, and its wallet is undefined.
H_constructor == <<"c","o","n","s","t","r","u","c","t","o","r">>
InheritedKeys == {H_constructor, <<"_","_","p","r","o","t","o","_","_">>}

UndefinedWallet == <<"undefined">>

\* record = MOCK_JUNGLE_DB[handle] (line 84), as [found, wallet, commit]
Record(handle) ==
    IF handle \in DOMAIN MOCK_JUNGLE_DB
    THEN [found |-> TRUE, wallet |-> MOCK_JUNGLE_DB[handle].wallet,
          commit |-> MOCK_JUNGLE_DB[handle].commit]
    ELSE IF handle \in InheritedKeys
    THEN [found |-> TRUE, wallet |-> UndefinedWallet, commit |-> 0]
    ELSE [found |-> FALSE, wallet |-> UndefinedWallet, commit |-> 0]

(***************************************************************************)
(* PresaleScreen: values                                                   *)
(***************************************************************************)
\* PRESALE_END_TIME (imported from ../constants, line 3), in milliseconds
PRESALE_END_TIME == 100000000

\* the instants at which the model reads Date.now(): 25h 1m 1s before the
\* deadline, the deadline itself, and 1 ms after it
Instants == {PRESALE_END_TIME - 90061000, PRESALE_END_TIME, PRESALE_END_TIME + 1}

\* 0.01 SOL (line 115) and 0.15 SOL (lines 31, 85), 0.1 SOL (line 27)
MinAmount == 100
DefaultCap == 1500
InitialAmount == 1000

\* txHash.length < 32 (line 125)
MinHashLength == 32

NoNotification == [type |-> "NULL"]
Notice(msg, ty) == [type |-> ty, message |-> msg]

CLOSED == [tag |-> "CLOSED"]
HMS(h, m, s) == [tag |-> "HMS", h |-> h, m |-> m, s |-> s]

\* what the visitor may type into the two fields of the VERIFY view
HandleInputs == {<<"@","M","o","n","k","y","_","K","i","n","g"," ">>,
                 <<"@","@","m","o","n","k","y","_","k","i","n","g">>,
                 <<"n","e","w","b","i","e">>,
                 H_constructor}
WalletInputs == {W_monky_king, W_degen_ape, <<"0","x","b","a","d">>}

\* what the visitor may type into the amount field, and parseFloat of it
AmountTexts == {"abc", "-1", "12", "0.1499"}
IsNaNText(val) == val = "abc"
ParseFloat(val) ==
    CASE val = "-1" -> -10000
      [] val = "12" -> 120000
      [] val = "0.1499" -> 1499
      [] OTHER -> 0

\* what the visitor may paste into the signature field
HashInputs == {<<>>, Rep("s", 31), Rep("s", 32)}

\* Number.prototype.toFixed(3) followed by parseFloat: the nearest multiple of
\* 0.001; no amount of the model lies half way between two of them
ToFixed3(n) == IF n >= 0 THEN ((n + 5) \div 10) * 10 ELSE -(((-n + 5) \div 10) * 10)

\* userData.actualCommit || 0.15 (lines 31, 85): 0 stands for undefined too
OrDefaultCap(actualCommit) == IF actualCommit = 0 THEN DefaultCap ELSE actualCommit

\* userData.handle.toLowerCase().replace('@', '') (lines 64, 144)
HandleKey(h) == ReplaceAt(ToLowerCase(h))

\* allData[handleKey] || [] of the parsed store (lines 63-65)
Slice(data, key) == IF key \in DOMAIN data THEN data[key] ELSE <<>>

\* the effect of lines 59-68, run at mount and whenever userData.handle changes
LoadHistory(ud, st, hist) ==
    IF ud.handle # <<>> /\ st.present THEN Slice(st.data, HandleKey(ud.handle)) ELSE hist

\* the countdown of lines 46-52
TimeString(distance) ==
    HMS((distance % 86400000) \div 3600000,
        (distance % 3600000) \div 60000,
        (distance % 60000) \div 1000)

EmptyUser == [handle |-> <<>>, wallet |-> <<>>, actualCommit |-> 0]
NoStorage == [present |-> FALSE, data |-> <<>>]

\* localStorage as an earlier visit may have left it: one submission of monky_king
OldSubmission ==
    [id |-> 0, missionId |-> "presale_contribution", proofUrl |-> Rep("p", 40),
     amount |-> 100000, status |-> "PENDING",
     timestamp |-> PRESALE_END_TIME - 90061000]
OldStorage == [present |-> TRUE, data |-> (H_monky_king :> <<OldSubmission>>)]

(***************************************************************************)
(* PresaleScreen: operations                                               *)
(***************************************************************************)
\* useState initialisers (lines 24-32) and the two mount effects (35-68)
MountState(ud, st) ==
    /\ mounted' = TRUE
    /\ view' = "VERIFY"
    /\ loginHandle' = ud.handle
    /\ loginWallet' = ud.wallet
    /\ amount' = InitialAmount
    /\ txHash' = <<>>
    /\ history' = LoadHistory(ud, st, <<>>)
    /\ notification' = NoNotification
    /\ detectedCap' = OrDefaultCap(ud.actualCommit)
    /\ timeLeft' = HMS(24, 0, 0)
    /\ timerActive' = TRUE

Mount ==
    /\ ~mounted
    /\ MountState(userData, storage)
    /\ intervals' = intervals + 1
    /\ UNCHANGED <<userData, storage, uuidSeq, now, adminVars, peerVars,
                   adminMounted, listeners, authListeners>>

\* unmounting discards the component's state and runs the cleanup of line 55;
\* clearInterval of an interval already cleared (line 41) does nothing
Unmount ==
    /\ mounted
    /\ mounted' = FALSE
    /\ view' = "VERIFY"
    /\ loginHandle' = <<>>
    /\ loginWallet' = <<>>
    /\ amount' = InitialAmount
    /\ txHash' = <<>>
    /\ history' = <<>>
    /\ notification' = NoNotification
    /\ detectedCap' = DefaultCap
    /\ timeLeft' = HMS(24, 0, 0)
    /\ timerActive' = FALSE
    /\ intervals' = IF timerActive THEN intervals - 1 ELSE intervals
    /\ UNCHANGED <<userData, storage, uuidSeq, now, adminVars, peerVars,
                   adminMounted, listeners, authListeners>>

\* if (distance < 0) (line 40)
WindowOver_AtZero(distance) == distance <= 0
WindowOver(distance) == distance < 0

\* the interval callback of lines 36-53
Tick ==
    /\ timerActive
    /\ LET distance == PRESALE_END_TIME - now IN
         IF WindowOver(distance)
         THEN /\ timerActive' = FALSE
              /\ intervals' = intervals - 1
              /\ timeLeft' = CLOSED
         ELSE /\ timerActive' = TRUE
              /\ intervals' = intervals
              /\ timeLeft' = TimeString(distance)
    /\ UNCHANGED <<mounted, view, loginHandle, loginWallet, amount, txHash, history,
                   notification, detectedCap, userData, storage, uuidSeq, now, adminVars,
                   peerVars, adminMounted, listeners, authListeners>>

\* time passes
AdvanceClock ==
    /\ \E t \in Instants : t > now /\ now' = t
    /\ UNCHANGED <<presaleVars, adminVars, peerVars, resourceVars>>

\* onChange of the handle field (line 204)
setLoginHandle ==
    /\ mounted /\ view = "VERIFY"
    /\ \E v \in HandleInputs : loginHandle' = v
    /\ UNCHANGED <<mounted, view, loginWallet, amount, txHash, history, notification,
                   detectedCap, timeLeft, timerActive, userData, storage, uuidSeq,
                   now, adminVars, peerVars, resourceVars>>

\* onChange of the wallet field (line 212)
setLoginWallet ==
    /\ mounted /\ view = "VERIFY"
    /\ \E v \in WalletInputs : loginWallet' = v
    /\ UNCHANGED <<mounted, view, loginHandle, amount, txHash, history, notification,
                   detectedCap, timeLeft, timerActive, userData, storage, uuidSeq,
                   now, adminVars, peerVars, resourceVars>>

\* lines 70-104
VerifyOutcome_MismatchFirst(handle, wallet) ==
    IF handle = <<>> \/ wallet = <<>> THEN "CREDENTIALS_MISSING"
    ELSE IF Record(handle).found /\ Record(handle).wallet # wallet THEN "SECURITY_WARNING"
    ELSE IF ~SOLANA_ADDRESS_REGEX(wallet) THEN "FORMAT_ERROR"
    ELSE "UPLINK_STABLE"
VerifyOutcome_NoWalletCheck(handle, wallet) ==
    IF handle = <<>> \/ wallet = <<>> THEN "CREDENTIALS_MISSING"
    ELSE IF ~SOLANA_ADDRESS_REGEX(wallet) THEN "FORMAT_ERROR"
    ELSE "UPLINK_STABLE"
VerifyOutcome(handle, wallet) ==
    IF handle = <<>> \/ wallet = <<>> THEN "CREDENTIALS_MISSING"
    ELSE IF ~SOLANA_ADDRESS_REGEX(wallet) THEN "FORMAT_ERROR"
    ELSE IF Record(handle).found /\ Record(handle).wallet # wallet THEN "SECURITY_WARNING"
    ELSE "UPLINK_STABLE"

\* let userCap = record ? record.commit : (userData.actualCommit || 0.15) (line 85)
UserCap(handle, ud) ==
    IF Record(handle).found THEN Record(handle).commit ELSE OrDefaultCap(ud.actualCommit)

handleVerify ==
    /\ mounted /\ view = "VERIFY"
    /\ LET handle == ToLowerCase(Trim(ReplaceAt(loginHandle)))
           wallet == Trim(loginWallet)
           outcome == VerifyOutcome(handle, wallet)
           userCap == UserCap(handle, userData)
           ud == [handle |-> IF StartsWithAt(handle) THEN handle ELSE <<"@">> \o handle,
                  wallet |-> wallet,
                  actualCommit |-> userCap]
       IN
         IF outcome # "UPLINK_STABLE"
         THEN /\ notification' = Notice(outcome, "ERROR")
              /\ UNCHANGED <<view, amount, history, detectedCap, userData>>
         ELSE /\ detectedCap' = userCap
              /\ amount' = userCap
              /\ userData' = ud
              /\ history' = IF ud.handle # userData.handle
                            THEN LoadHistory(ud, storage, history)
                            ELSE history
              /\ view' = "CONTRIBUTE"
              /\ notification' = Notice("UPLINK_STABLE", "SUCCESS")
    /\ UNCHANGED <<mounted, loginHandle, loginWallet, txHash, timeLeft, timerActive,
                   storage, uuidSeq, now, adminVars, peerVars, resourceVars>>

\* lines 106-111
AmountChanged_NoClamp(val, cap) == IF IsNaNText(val) THEN 0 ELSE ParseFloat(val)
AmountChanged(val, cap) ==
    LET n == IF IsNaNText(val) THEN 0 ELSE ParseFloat(val)
    IN  IF n > cap THEN cap ELSE n

handleAmountChange ==
    /\ mounted /\ view = "CONTRIBUTE"
    /\ \E val \in AmountTexts : amount' = AmountChanged(val, detectedCap)
    /\ UNCHANGED <<mounted, view, loginHandle, loginWallet, txHash, history, notification,
                   detectedCap, timeLeft, timerActive, userData, storage, uuidSeq,
                   now, adminVars, peerVars, resourceVars>>

\* lines 113-118
AmountBlurred(a, cap) ==
    LET n1 == IF a < MinAmount THEN MinAmount ELSE a
        n2 == IF n1 > cap THEN cap ELSE n1
    IN  ToFixed3(n2)

handleAmountBlur ==
    /\ mounted /\ view = "CONTRIBUTE"
    /\ amount' = AmountBlurred(amount, detectedCap)
    /\ UNCHANGED <<mounted, view, loginHandle, loginWallet, txHash, history, notification,
                   detectedCap, timeLeft, timerActive, userData, storage, uuidSeq,
                   now, adminVars, peerVars, resourceVars>>

\* onChange of the signature field (line 326)
setTxHash ==
    /\ mounted /\ view = "CONTRIBUTE"
    /\ \E v \in HashInputs : txHash' = v
    /\ UNCHANGED <<mounted, view, loginHandle, loginWallet, amount, history, notification,
                   detectedCap, timeLeft, timerActive, userData, storage, uuidSeq,
                   now, adminVars, peerVars, resourceVars>>

\* the checks of lines 121-128, in the order of the code
SubmitOutcome_HashFirst(tl, hash) ==
    IF hash = <<>> \/ Len(hash) < MinHashLength THEN "HASH_INVALID"
    ELSE IF tl = CLOSED THEN "PHASE_END"
    ELSE "TRANSMISSION_COMPLETE"
SubmitOutcome(tl, hash) ==
    IF tl = CLOSED THEN "PHASE_END"
    ELSE IF hash = <<>> \/ Len(hash) < MinHashLength THEN "HASH_INVALID"
    ELSE "TRANSMISSION_COMPLETE"

\* lines 130-137; crypto.randomUUID() never repeats: the n-th call yields n
NewSubmission(hash, a, t, n) ==
    [id |-> n, missionId |-> "presale_contribution", proofUrl |-> hash,
     amount |-> a, status |-> "PENDING", timestamp |-> t]

\* const newHistory = [newSub, ...history] (line 139)
NewHistory_Appended(newSub, hist) == hist \o <<newSub>>
NewHistory(newSub, hist) == <<newSub>> \o hist

\* lines 142-146: the slice of handleKey is replaced by newHistory
Persist_OnlySlice(st, key, newHistory) ==
    [present |-> TRUE, data |-> (key :> newHistory)]
Persist(st, key, newHistory) ==
    [present |-> TRUE,
     data |-> (key :> newHistory) @@ (IF st.present THEN st.data ELSE <<>>)]

\* lines 120-150. The handler runs its own window check, so it is modelled whether
\* or not the button that calls it is disabled (line 333).
submitTx ==
    /\ mounted /\ view = "CONTRIBUTE"
    /\ LET outcome == SubmitOutcome(timeLeft, txHash) IN
         IF outcome # "TRANSMISSION_COMPLETE"
         THEN /\ notification' = Notice(outcome, "ERROR")
              /\ UNCHANGED <<txHash, history, storage, uuidSeq>>
         ELSE /\ uuidSeq < MaxSubmissions
              /\ LET newSub == NewSubmission(txHash, amount, now, uuidSeq + 1)
                     newHistory == NewHistory(newSub, history)
                 IN  /\ history' = newHistory
                     /\ storage' = Persist(storage, HandleKey(userData.handle), newHistory)
              /\ uuidSeq' = uuidSeq + 1
              /\ txHash' = <<>>
              /\ notification' = Notice("TRANSMISSION_COMPLETE", "SUCCESS")
    /\ UNCHANGED <<mounted, view, loginHandle, loginWallet, amount, detectedCap,
                   timeLeft, timerActive, userData, now, adminVars, peerVars,
                   resourceVars>>

\* the two buttons of lines 383 and 391
DismissNotification ==
    /\ mounted /\ notification # NoNotification
    /\ notification' = NoNotification
    /\ UNCHANGED <<mounted, view, loginHandle, loginWallet, amount, txHash, history,
                   detectedCap, timeLeft, timerActive, userData, storage, uuidSeq,
                   now, adminVars, peerVars, resourceVars>>

(***************************************************************************)
(* PresaleScreen: its environment                                          *)
(***************************************************************************)
\* the parent component, which owns userData, clears the identity; the effect of
\* lines 59-68 runs because userData.handle has changed
ParentClearsUserData ==
    /\ userData.handle # <<>>
    /\ userData' = EmptyUser
    /\ history' = IF mounted THEN LoadHistory(EmptyUser, storage, history) ELSE history
    /\ UNCHANGED <<mounted, view, loginHandle, loginWallet, amount, txHash,
                   notification, detectedCap, timeLeft, timerActive, storage, uuidSeq,
                   now, adminVars, peerVars, resourceVars>>

\* the browser's site data is cleared: localStorage.getItem(STORAGE_KEY) is null
StorageCleared ==
    /\ storage.present
    /\ storage' = NoStorage
    /\ UNCHANGED <<mounted, view, loginHandle, loginWallet, amount, txHash, history,
                   notification, detectedCap, timeLeft, timerActive, userData, uuidSeq,
                   now, adminVars, peerVars, resourceVars>>

\* a second tab verifies as the handle this tab is verified as (lines 70-104),
\* and its effect of lines 59-68 loads the ledger
PeerVerify ==
    /\ view = "CONTRIBUTE"
    /\ peerHandle = <<>>
    /\ peerHandle' = userData.handle
    /\ peerHistory' = LoadHistory(userData, storage, peerHistory)
    /\ UNCHANGED <<peerSeq, presaleVars, adminVars, now, resourceVars>>

\* submitTx of the second tab (lines 130-146), with a valid signature
PeerSubmitTx ==
    /\ peerHandle # <<>>
    /\ peerSeq < MaxPeerSubmissions
    /\ LET newSub == NewSubmission(Rep("s", MinHashLength), MinAmount, now, uuidSeq + 1)
           newHistory == NewHistory(newSub, peerHistory)
       IN  /\ peerHistory' = newHistory
           /\ storage' = Persist(storage, HandleKey(peerHandle), newHistory)
    /\ uuidSeq' = uuidSeq + 1
    /\ peerSeq' = peerSeq + 1
    /\ UNCHANGED <<mounted, view, loginHandle, loginWallet, amount, txHash, history,
                   notification, detectedCap, timeLeft, timerActive, userData,
                   peerHandle, adminVars, resourceVars, now>>

(***************************************************************************)
(* AdminScreen: values                                                     *)
(***************************************************************************)
\* An e-mail that is null, undefined or '' is falsy (lines 31, 33, 67): all
\* three are the empty sequence.
E_Admin == <<"A","d","m","i","n","@","x",".","i","o">>
E_admin == <<"a","d","m","i","n","@","X",".","i","o">>
E_other == <<"m","o","d","@","x",".","i","o">>

\* what getAdminEmail() may be configured to return
AdminEmailConfigs == {<<>>, E_Admin}

NoUser == [present |-> FALSE, email |-> <<>>]
User(e) == [present |-> TRUE, email |-> e]
Sessions == {User(E_admin), User(E_other), User(<<>>)}

NoError == "NULL"
NoToast == "NULL"

\* err.message of a failed subscription or write; '' when the error has none
ErrorMessages == {"permission-denied", ""}

\* lines 30-35
IsAllowedFor_CaseSensitive(user, configured) ==
    IF ~user.present \/ user.email = <<>> THEN FALSE
    ELSE IF configured = <<>> THEN FALSE
    ELSE user.email = configured
IsAllowedFor(user, configured) ==
    IF ~user.present \/ user.email = <<>> THEN FALSE
    ELSE IF configured = <<>> THEN FALSE
    ELSE ToLowerCase(user.email) = ToLowerCase(configured)

isAllowed == IsAllowedFor(authUser, adminEmail)

\* which of the four returns of lines 83-197 is rendered
ScreenOf(ready, user, allowed) ==
    IF ~ready THEN "AUTH_PENDING"
    ELSE IF ~user.present THEN "UNAUTHENTICATED"
    ELSE IF ~allowed THEN "AUTHENTICATED_DENIED"
    ELSE "AUTHENTICATED_ALLOWED"

Screen == ScreenOf(authReady, authUser, isAllowed)

\* r.status || 'PENDING' (lines 51, 156): a record without status has status ""
OrPending(status) == IF status = "" THEN "PENDING" ELSE status

\* query(collection, orderBy('createdAt', 'desc'), limit(QueryLimit)) (line 42);
\* docs is kept in the order of creation, createdAt increasing
QueryWindow(ds) ==
    LET n == IF Len(ds) < QueryLimit THEN Len(ds) ELSE QueryLimit
    IN  [i \in 1..n |-> ds[Len(ds) - i + 1]]

\* rows.filter((r) => (r.status || 'PENDING') === 'PENDING') (line 51)
IsPendingRow_NotApproved(r) == OrPending(r.status) # "APPROVED"
IsPendingRow(r) == OrPending(r.status) = "PENDING"
PendingRows(rows) == SelectSeq(rows, IsPendingRow)

\* whether the effect of lines 37-59 opens the subscription
EffectSubscribes_DisplayGatedOnly(ready, allowed) == ready
EffectSubscribes(ready, allowed) == ready /\ allowed

(***************************************************************************)
(* AdminScreen: operations                                                 *)
(***************************************************************************)
\* the environment: a session the provider restores before its first callback, or
\* a sign-in through AdminLoginScreen, which only the return of line 95 renders
SignIn ==
    /\ ~session.present
    /\ Screen \in {"AUTH_PENDING", "UNAUTHENTICATED"}
    /\ \E u \in Sessions : session' = u
    /\ UNCHANGED <<adminEmail, authUser, authReady, applications, actionError, toast,
                   subscription, docs, writes, presaleVars, now, peerVars,
                   resourceVars>>

\* lines 79-81
handleLogout ==
    /\ Screen \in {"AUTHENTICATED_DENIED", "AUTHENTICATED_ALLOWED"}
    /\ session' = NoUser
    /\ UNCHANGED <<adminEmail, authUser, authReady, applications, actionError, toast,
                   subscription, docs, writes, presaleVars, now, peerVars,
                   resourceVars>>

\* the cleanup of line 58: unsub() ends the listener of the previous run of the
\* effect, if that run subscribed and the listener has not failed since
Unsubscribed_Leaks(sub, n) == n
Unsubscribed(sub, n) == IF sub = "live" THEN n - 1 ELSE n

\* the callback of lines 23-26, then the effect of lines 37-59 when one of its
\* dependencies authReady, isAllowed has changed
OnAuthStateChanged_NoTeardown ==
    /\ authListeners > 0
    /\ ~authReady \/ authUser # session
    /\ authUser' = session
    /\ authReady' = TRUE
    /\ LET allowed == IsAllowedFor(session, adminEmail) IN
         IF EffectSubscribes(TRUE, allowed) /\ subscription = "none"
         THEN /\ subscription' = "live"
              /\ listeners' = listeners + 1
              /\ UNCHANGED applications
         ELSE UNCHANGED <<applications, subscription, listeners>>
    /\ UNCHANGED <<adminEmail, actionError, toast, session, docs, writes,
                   presaleVars, now, peerVars, adminMounted, intervals, authListeners>>
OnAuthStateChanged ==
    /\ authListeners > 0
    /\ ~authReady \/ authUser # session
    /\ authUser' = session
    /\ authReady' = TRUE
    /\ LET allowed == IsAllowedFor(session, adminEmail)
           released == Unsubscribed(subscription, listeners)
       IN
         IF <<TRUE, allowed>> = <<authReady, isAllowed>>
         THEN UNCHANGED <<applications, subscription, listeners>>
         ELSE IF EffectSubscribes(TRUE, allowed)
         THEN /\ subscription' = "live"
              /\ listeners' = released + 1
              /\ UNCHANGED applications
         ELSE /\ subscription' = "none"
              /\ listeners' = released
              /\ applications' = <<>>
    /\ UNCHANGED <<adminEmail, actionError, toast, session, docs, writes,
                   presaleVars, now, peerVars, adminMounted, intervals, authListeners>>

\* the environment: a record is created in the 'applications' collection
CreateDoc ==
    /\ Len(docs) < MaxDocs
    /\ \E st \in {"PENDING", ""} :
         docs' = Append(docs, [id |-> Len(docs) + 1, status |-> st,
                               createdAt |-> Len(docs) + 1,
                               reviewedAt |-> 0, reviewer |-> <<>>])
    /\ UNCHANGED <<adminEmail, authUser, authReady, applications, actionError, toast,
                   subscription, session, writes, presaleVars, now, peerVars,
                   resourceVars>>

\* what the snapshot callback (lines 45-52) leaves in applications when it
\* handles the delivery snapDocs while applications holds apps
SnapshotHandled_Accumulates(apps, snapDocs) == apps \o PendingRows(snapDocs)
SnapshotHandled(apps, snapDocs) == PendingRows(snapDocs)

\* the snapshot callback of lines 45-52
OnSnapshot ==
    /\ subscription = "live"
    /\ actionError' = NoError
    /\ applications' = SnapshotHandled(applications, QueryWindow(docs))
    /\ UNCHANGED <<adminEmail, authUser, authReady, toast, subscription, session,
                   docs, writes, presaleVars, now, peerVars, resourceVars>>

\* the error callback of lines 53-56; the listener is dead afterwards
OnSnapshotError_KeepsRows ==
    /\ subscription = "live"
    /\ \E msg \in ErrorMessages :
         actionError' = IF msg = "" THEN "FIRESTORE_SUBSCRIBE_FAILED" ELSE msg
    /\ subscription' = "failed"
    /\ listeners' = listeners - 1
    /\ UNCHANGED <<adminEmail, authUser, authReady, applications, toast, session, docs,
                   writes, presaleVars, now, peerVars, adminMounted, intervals,
                   authListeners>>
OnSnapshotError ==
    /\ subscription = "live"
    /\ \E msg \in ErrorMessages :
         actionError' = IF msg = "" THEN "FIRESTORE_SUBSCRIBE_FAILED" ELSE msg
    /\ applications' = <<>>
    /\ subscription' = "failed"
    /\ listeners' = listeners - 1
    /\ UNCHANGED <<adminEmail, authUser, authReady, toast, session, docs, writes,
                   presaleVars, now, peerVars, adminMounted, intervals, authListeners>>

\* the fields updateDoc is called with (lines 64-68); orphan: the component that
\* made the call has been unmounted since, so its setToast and setActionError
\* (lines 71, 75) no longer change any state
Update(id, status, t, user) ==
    [id |-> id, status |-> status, reviewedAt |-> t, reviewer |-> user.email,
     orphan |-> FALSE]

\* whether the button that resolves row a to status can be clicked: the queue is
\* rendered only by the last return (line 119), disabled is lines 164 and 171
CanResolve(a, status) == Screen = "AUTHENTICATED_ALLOWED" /\ a.status # status

\* updateStatus up to its await (lines 61-68)
updateStatus ==
    /\ Len(writes) < MaxWrites
    /\ \E i \in DOMAIN applications, status \in {"APPROVED", "REJECTED"} :
         /\ CanResolve(applications[i], status)
         /\ writes' = Append(writes, Update(applications[i].id, status, now, authUser))
    /\ actionError' = NoError
    /\ UNCHANGED <<adminEmail, authUser, authReady, applications, toast, subscription,
                   session, docs, presaleVars, now, peerVars, resourceVars>>

\* the store applies an update to the record it names
Applied_StatusOnly(ds, w) ==
    [i \in DOMAIN ds |->
        IF ds[i].id = w.id THEN [ds[i] EXCEPT !.status = w.status] ELSE ds[i]]
Applied(ds, w) ==
    [i \in DOMAIN ds |->
        IF ds[i].id = w.id
        THEN [ds[i] EXCEPT !.status = w.status, !.reviewedAt = w.reviewedAt,
                           !.reviewer = w.reviewer]
        ELSE ds[i]]

\* updateDoc resolves, and updateStatus resumes at line 70
UpdateSucceeds ==
    /\ writes # <<>>
    /\ docs' = Applied(docs, Head(writes))
    /\ writes' = Tail(writes)
    /\ toast' = IF Head(writes).status = "APPROVED" /\ ~Head(writes).orphan
                THEN "APPROVED: Application status updated."
                ELSE toast
    /\ UNCHANGED <<adminEmail, authUser, authReady, applications, actionError,
                   subscription, session, presaleVars, now, peerVars, resourceVars>>

\* updateDoc rejects, and updateStatus resumes at line 74
UpdateFails_Retries ==
    /\ writes # <<>>
    /\ writes' = Append(Tail(writes), Head(writes))
    /\ \E msg \in ErrorMessages :
         actionError' = IF Head(writes).orphan THEN actionError
                        ELSE IF msg = "" THEN "UPDATE_FAILED" ELSE msg
    /\ UNCHANGED <<adminEmail, authUser, authReady, applications, toast, subscription,
                   session, docs, presaleVars, now, peerVars, resourceVars>>
UpdateFails ==
    /\ writes # <<>>
    /\ writes' = Tail(writes)
    /\ \E msg \in ErrorMessages :
         actionError' = IF Head(writes).orphan THEN actionError
                        ELSE IF msg = "" THEN "UPDATE_FAILED" ELSE msg
    /\ UNCHANGED <<adminEmail, authUser, authReady, applications, toast, subscription,
                   session, docs, presaleVars, now, peerVars, resourceVars>>

\* AdminScreen is mounted: the useState initialisers (lines 16-20), the effect
\* of lines 22-28, and the effect of lines 37-59 with authReady false
AdminMount ==
    /\ ~adminMounted
    /\ adminMounted' = TRUE
    /\ authListeners' = authListeners + 1
    /\ authUser' = NoUser
    /\ authReady' = FALSE
    /\ applications' = <<>>
    /\ actionError' = NoError
    /\ toast' = NoToast
    /\ subscription' = "none"
    /\ UNCHANGED <<adminEmail, session, docs, writes, listeners, intervals,
                   presaleVars, now, peerVars>>

\* AdminScreen is unmounted: its state is discarded and the cleanups of lines 27
\* and 58 run. The timeout of line 72 is not cleared, but its setToast(null)
\* acts on the discarded state.
AdminUnmount ==
    /\ adminMounted
    /\ adminMounted' = FALSE
    /\ authListeners' = authListeners - 1
    /\ listeners' = Unsubscribed(subscription, listeners)
    /\ authUser' = NoUser
    /\ authReady' = FALSE
    /\ applications' = <<>>
    /\ actionError' = NoError
    /\ toast' = NoToast
    /\ subscription' = "none"
    /\ writes' = [i \in DOMAIN writes |-> [writes[i] EXCEPT !.orphan = TRUE]]
    /\ UNCHANGED <<adminEmail, session, docs, intervals, presaleVars, now, peerVars>>

\* the timeout of line 72
ToastTimeout ==
    /\ toast # NoToast
    /\ toast' = NoToast
    /\ UNCHANGED <<adminEmail, authUser, authReady, applications, actionError,
                   subscription, session, docs, writes, presaleVars, now, peerVars,
                   resourceVars>>

(***************************************************************************)
(* Specifications                                                          *)
(***************************************************************************)
\* PresaleScreen as first mounted by a parent that holds no identity yet; the
\* effects of lines 35-68 have run
LedgerInit ==
    /\ userData = EmptyUser
    /\ uuidSeq = 0
    /\ now = PRESALE_END_TIME - 90061000
    /\ mounted = TRUE
    /\ view = "VERIFY"
    /\ loginHandle = <<>>
    /\ loginWallet = <<>>
    /\ amount = InitialAmount
    /\ txHash = <<>>
    /\ history = <<>>
    /\ notification = NoNotification
    /\ detectedCap = DefaultCap
    /\ timeLeft = HMS(24, 0, 0)
    /\ timerActive = TRUE

\* AdminScreen as first mounted (lines 16-20); the effect of lines 37-59 has run
\* with authReady false
QueueInit ==
    /\ authUser = NoUser
    /\ authReady = FALSE
    /\ applications = <<>>
    /\ actionError = NoError
    /\ toast = NoToast
    /\ subscription = "none"
    /\ session = NoUser
    /\ docs = <<>>
    /\ writes = <<>>

\* both screens mounted once: one interval, one auth listener, no subscription
ResourceInit ==
    /\ adminMounted = TRUE
    /\ intervals = 1
    /\ listeners = 0
    /\ authListeners = 1

\* the second tab has not verified yet
PeerInit ==
    /\ peerHandle = <<>>
    /\ peerHistory = <<>>
    /\ peerSeq = 0

Init ==
    /\ LedgerInit
    /\ PeerInit
    /\ ResourceInit
    /\ storage \in {NoStorage, OldStorage}
    /\ QueueInit
    /\ adminEmail = E_Admin

InitAdmin ==
    /\ LedgerInit
    /\ PeerInit
    /\ ResourceInit
    /\ storage = NoStorage
    /\ QueueInit
    /\ adminEmail \in AdminEmailConfigs

PresaleNext ==
    \/ Tick
    \/ AdvanceClock
    \/ setLoginHandle
    \/ setLoginWallet
    \/ handleVerify
    \/ handleAmountChange
    \/ handleAmountBlur
    \/ setTxHash
    \/ submitTx
    \/ DismissNotification

AdminNext ==
    \/ SignIn
    \/ handleLogout
    \/ OnAuthStateChanged
    \/ CreateDoc
    \/ OnSnapshot
    \/ OnSnapshotError
    \/ updateStatus
    \/ UpdateSucceeds
    \/ UpdateFails
    \/ ToastTimeout

RemountNext ==
    \/ Mount
    \/ Unmount
    \/ PresaleNext

\* the screen while the parent or the browser changes what it reads
IdentityNext ==
    \/ Mount
    \/ Unmount
    \/ setLoginHandle
    \/ setLoginWallet
    \/ handleVerify
    \/ setTxHash
    \/ submitTx
    \/ ParentClearsUserData
    \/ StorageCleared

\* both screens as they are mounted and unmounted while time passes, sessions
\* change and the store delivers
LifecycleNext ==
    \/ Mount
    \/ Unmount
    \/ Tick
    \/ AdvanceClock
    \/ AdminMount
    \/ AdminUnmount
    \/ SignIn
    \/ handleLogout
    \/ OnAuthStateChanged
    \/ CreateDoc
    \/ OnSnapshot
    \/ OnSnapshotError

\* two tabs that share localStorage
TabsNext ==
    \/ setLoginHandle
    \/ setLoginWallet
    \/ handleVerify
    \/ setTxHash
    \/ submitTx
    \/ PeerVerify
    \/ PeerSubmitTx

\* Spec: the contribution ledger of one mounted PresaleScreen.
\* SpecRemount: the same, with the screen unmounted and mounted again.
\* SpecAdmin: the moderation queue; it reads the clock only to stamp reviewedAt,
\* so the clock stands still there.
Spec == Init /\ [][PresaleNext]_vars
SpecRemount == Init /\ [][RemountNext]_vars
SpecAdmin == InitAdmin /\ [][AdminNext]_vars

\* SpecIdentity: the ledger while the identity and the store change under the
\* screen; the clock plays no part in loading and stands still.
\* SpecTabs: the ledger of two tabs verified as one handle; the same.
\* SpecLifecycle: the timers and listeners of both screens over mounts and
\* unmounts; the visitor of PresaleScreen types nothing.
SpecIdentity == Init /\ [][IdentityNext]_vars
SpecLifecycle == InitAdmin /\ [][LifecycleNext]_vars
SpecTabs == Init /\ [][TabsNext]_vars

\* SpecAdminFair: the moderation queue when the auth provider delivers every
\* session change and the store delivers every snapshot of a live listener.
SpecAdminFair ==
    SpecAdmin /\ WF_vars(OnAuthStateChanged) /\ WF_vars(OnSnapshot)

(***************************************************************************)
(* Properties                                                              *)
(***************************************************************************)
Terminal == {"APPROVED", "REJECTED"}

\* C1: once a record of the moderation store is APPROVED or REJECTED, no step
\* changes its status again; a status changes only from PENDING (or absent) to
\* APPROVED or REJECTED.
C1_StatusChangesAtMostOnce ==
    [][\A i \in DOMAIN docs :
          /\ docs[i].status \in Terminal => docs'[i].status = docs[i].status
          /\ docs'[i].status # docs[i].status => docs'[i].status \in Terminal]_vars

\* C2: with a proof reference of at least 32 characters, submitTx adds a
\* Submission (to the in-memory or the persisted ledger) iff the window is open
\* and MinAmount <= amount <= detectedCap.
C2_AppendsIffAmountInRange ==
    [][(submitTx /\ Len(txHash) >= MinHashLength) =>
          ((history' # history \/ storage' # storage)
             <=> (timeLeft # CLOSED /\ MinAmount <= amount /\ amount <= detectedCap))]_vars

\* C3: while the screen is not AUTHENTICATED_ALLOWED there is no subscription to
\* the applications collection and the held pending set is empty; no step opens
\* a subscription into such a state, and every step that issues an update is
\* taken from AUTHENTICATED_ALLOWED.
C3_Gated ==
    Screen # "AUTHENTICATED_ALLOWED" => subscription = "none" /\ applications = <<>>

C3_NoQueueUnlessAllowed ==
    /\ []C3_Gated
    /\ [][/\ (subscription' = "live" /\ subscription # "live")
               => Screen' = "AUTHENTICATED_ALLOWED"
          /\ Len(writes') > Len(writes) => Screen = "AUTHENTICATED_ALLOWED"]_vars

C3_Witness ==
    /\ Screen \in {"UNAUTHENTICATED", "AUTHENTICATED_DENIED"}
    /\ \E i \in DOMAIN docs : docs[i].status = "APPROVED"
    /\ \E i \in DOMAIN docs : docs[i].status \notin Terminal

\* the records of the query window: fewer than QueryLimit records are newer
InWindow(d) ==
    Cardinality({j \in DOMAIN docs : docs[j].createdAt > d.createdAt}) < QueryLimit

\* C4: after a snapshot is handled, applications holds exactly the records of
\* the window (the QueryLimit most recent by createdAt) that are not APPROVED
\* or REJECTED (a record without status counts as PENDING, line 51), each once,
\* most recent first.
C4_QueueIsPendingWindow ==
    [][OnSnapshot =>
          /\ Range(applications') =
               {docs[i] : i \in {j \in DOMAIN docs :
                                   InWindow(docs[j]) /\ docs[j].status \notin Terminal}}
          /\ \A i, j \in DOMAIN applications' :
               i < j => applications'[i].createdAt > applications'[j].createdAt]_vars

C4_Witness ==
    /\ subscription = "live"
    /\ applications # <<>>
    /\ applications[1] = docs[Len(docs)]
    /\ \E i \in DOMAIN docs : ~InWindow(docs[i]) /\ docs[i].status \notin Terminal

\* the handle and wallet handleVerify works with
NormalHandle == ToLowerCase(Trim(ReplaceAt(loginHandle)))
NormalWallet == Trim(loginWallet)

\* C5: for a handle of the allocation table and a well-formed wallet,
\* handleVerify reports the wallet mismatch iff the wallet differs from the
\* recorded one; then detectedCap, amount, userData and view keep their values;
\* otherwise the cap resolved is the recorded cap.
C5_MismatchIffWalletDiffers ==
    [][(/\ handleVerify
        /\ NormalHandle \in DOMAIN MOCK_JUNGLE_DB
        /\ SOLANA_ADDRESS_REGEX(NormalWallet)) =>
          LET recorded == MOCK_JUNGLE_DB[NormalHandle] IN
            /\ notification' = Notice("SECURITY_WARNING", "ERROR")
                 <=> NormalWallet # recorded.wallet
            /\ NormalWallet # recorded.wallet =>
                 UNCHANGED <<detectedCap, amount, userData, view>>
            /\ NormalWallet = recorded.wallet =>
                 /\ notification' = Notice("UPLINK_STABLE", "SUCCESS")
                 /\ detectedCap' = recorded.commit
                 /\ userData'.actualCommit = recorded.commit
                 /\ view' = "CONTRIBUTE"]_vars

C5_Witness ==
    /\ view = "VERIFY"
    /\ NormalHandle = H_monky_king
    /\ NormalWallet = W_degen_ape
    /\ notification = Notice("SECURITY_WARNING", "ERROR")
    /\ detectedCap = DefaultCap

\* C6: for a handle that is not in the allocation table and a well-formed
\* wallet, handleVerify succeeds and resolves the cap to DefaultCap.
C6_UnknownHandleGetsDefaultCap ==
    [][(/\ handleVerify
        /\ NormalHandle # <<>>
        /\ NormalHandle \notin DOMAIN MOCK_JUNGLE_DB
        /\ SOLANA_ADDRESS_REGEX(NormalWallet)) =>
          /\ notification' = Notice("UPLINK_STABLE", "SUCCESS")
          /\ detectedCap' = DefaultCap
          /\ userData'.actualCommit = DefaultCap]_vars

\* C7: submitTx with the window closed reports PHASE_END and leaves the ledger
\* as it is, whatever txHash and amount are; with the window open and a txHash
\* that is empty or shorter than 32 it reports HASH_INVALID and leaves the
\* ledger as it is, whatever amount is.
C7_ValidationOrder ==
    [][submitTx =>
          /\ timeLeft = CLOSED =>
               /\ notification' = Notice("PHASE_END", "ERROR")
               /\ UNCHANGED <<history, storage>>
          /\ (timeLeft # CLOSED /\ Len(txHash) < MinHashLength) =>
               /\ notification' = Notice("HASH_INVALID", "ERROR")
               /\ UNCHANGED <<history, storage>>]_vars

C7_Witness ==
    /\ timeLeft = CLOSED
    /\ Len(txHash) < MinHashLength
    /\ amount < MinAmount
    /\ notification = Notice("PHASE_END", "ERROR")

\* every id the persisted ledger or the in-memory ledger holds
LedgerIds ==
    {history[i].id : i \in DOMAIN history}
      \cup UNION {{storage.data[k][i].id : i \in DOMAIN storage.data[k]} :
                    k \in DOMAIN storage.data}

PersistedSlice(st, key) ==
    IF st.present /\ key \in DOMAIN st.data THEN st.data[key] ELSE <<>>

C9_ClosedIsMonotonic ==
    [][/\ timeLeft = CLOSED => timeLeft' = CLOSED
       /\ (timeLeft # CLOSED /\ timeLeft' = CLOSED) =>
            Tick /\ PRESALE_END_TIME - now < 0
       /\ (Tick /\ PRESALE_END_TIME - now < 0) => timeLeft' = CLOSED
       /\ (Tick /\ PRESALE_END_TIME - now >= 0) => timeLeft' # CLOSED]_vars

C9_Witness ==
    /\ timeLeft = CLOSED
    /\ now > PRESALE_END_TIME
    /\ notification = Notice("TRANSMISSION_COMPLETE", "SUCCESS")

\* two e-mails are equal when case is ignored
SameIgnoringCase(a, b) ==
    /\ Len(a) = Len(b)
    /\ \A i \in DOMAIN a :
         \/ a[i] = b[i]
         \/ \E k \in DOMAIN UPPER : {a[i], b[i]} = {UPPER[k], LOWER[k]}

\* C10: once the auth provider has reported, the screen is AUTHENTICATED_ALLOWED
\* iff a session is present, an authorized e-mail is configured and the
\* session's e-mail equals it when case is ignored; it is UNAUTHENTICATED iff no
\* session is present, and AUTHENTICATED_DENIED otherwise.
C10_AccessState ==
    authReady =>
      LET matches == /\ authUser.present
                     /\ authUser.email # <<>>
                     /\ adminEmail # <<>>
                     /\ SameIgnoringCase(authUser.email, adminEmail)
      IN  /\ Screen = "AUTHENTICATED_ALLOWED" <=> matches
          /\ Screen = "UNAUTHENTICATED" <=> ~authUser.present
          /\ Screen = "AUTHENTICATED_DENIED" <=> (authUser.present /\ ~matches)

C10_Witness ==
    /\ Screen = "AUTHENTICATED_ALLOWED"
    /\ authUser.email # adminEmail
    /\ subscription = "live"

\* the ids of the rows a queue holds
Ids(rows) == {rows[i].id : i \in DOMAIN rows}

\* C11: the error callback of the subscription empties applications and records
\* the store's message, or FIRESTORE_SUBSCRIBE_FAILED when it has none; while
\* the subscription stays failed, applications stays empty and an error stays
\* recorded.
C11_SubscribeFailedClears ==
    /\ [](subscription = "failed" => applications = <<>> /\ actionError # NoError)
    /\ [][(subscription = "live" /\ subscription' = "failed") =>
             /\ applications' = <<>>
             /\ actionError' \in (ErrorMessages \ {""}) \cup {"FIRESTORE_SUBSCRIBE_FAILED"}]_vars

C11_Witness ==
    /\ subscription = "failed"
    /\ actionError = "FIRESTORE_SUBSCRIBE_FAILED"
    /\ PendingRows(QueryWindow(docs)) # <<>>

\* C12: when updateDoc rejects, applications is emptied.
C12_UpdateFailedClears ==
    [][UpdateFails => applications' = <<>>]_vars

\* the callback for a logout is outstanding
LogoutPending == authReady /\ authUser.present /\ ~session.present

LoggedOut ==
    /\ Screen = "UNAUTHENTICATED"
    /\ subscription = "none"
    /\ applications = <<>>

\* C13: handleLogout ends the session; the callback that reports it leaves the
\* screen UNAUTHENTICATED, the subscription released and applications empty; and
\* once a logout is outstanding that state is eventually reached.
C13_LogoutReturnsToUnauthenticated ==
    /\ [][/\ handleLogout => LogoutPending'
          /\ (LogoutPending /\ OnAuthStateChanged) => LoggedOut']_vars
    /\ (LogoutPending ~> LoggedOut)

C13_Witness ==
    /\ LoggedOut
    /\ authReady
    /\ PendingRows(QueryWindow(docs)) # <<>>
    /\ \E i \in DOMAIN docs : docs[i].reviewer # <<>>

\* the rows of applications whose record is APPROVED or REJECTED by now
ResolvedRows ==
    {id \in Ids(applications) :
       \E i \in DOMAIN docs : docs[i].id = id /\ docs[i].status \in Terminal}

\* C14: updateStatus calls updateDoc with the target status, the current time
\* and the e-mail of the signed-in moderator; when updateDoc resolves, the record
\* holds these three values, the reviewer being the authorized e-mail when case
\* is ignored; and whenever applications holds rows whose records are APPROVED
\* or REJECTED, all of them eventually have left it.
C14_ResolveWritesAndRowLeaves ==
    /\ [][/\ updateStatus =>
               LET w == writes'[Len(writes')] IN
                 /\ w.id \in Ids(applications)
                 /\ w.status \in Terminal
                 /\ w.reviewedAt = now
                 /\ w.reviewer = authUser.email
          /\ UpdateSucceeds =>
               \A i \in DOMAIN docs :
                 docs[i].id = Head(writes).id =>
                   /\ docs'[i].status = Head(writes).status
                   /\ docs'[i].reviewedAt = Head(writes).reviewedAt
                   /\ docs'[i].reviewer = Head(writes).reviewer
                   /\ SameIgnoringCase(docs'[i].reviewer, adminEmail)]_vars
    /\ []<>(ResolvedRows = {})

C14_Witness ==
    /\ subscription = "live"
    /\ \E i \in DOMAIN docs :
         /\ docs[i].status = "REJECTED"
         /\ docs[i].reviewer = E_admin
         /\ docs[i].id \notin Ids(applications)
    /\ applications # <<>>

\* deliveries the listener may hand to the callback: the query window of the
\* collection as it is, and as it was when it held fewer records
Deliveries == {QueryWindow(SubSeq(docs, 1, k)) : k \in 0..Len(docs)}

\* C20: the snapshot callback replaces applications: whatever applications
\* holds and whatever was delivered before, handling a delivery leaves the
\* PENDING rows of that delivery alone, each once, and handling it a second
\* time changes nothing.
C20_FullReplacement ==
    /\ [](\A d1, d2 \in Deliveries :
            LET once == SnapshotHandled(SnapshotHandled(applications, d1), d2) IN
              /\ once = SnapshotHandled(<<>>, d2)
              /\ SnapshotHandled(once, d2) = once
              /\ Cardinality(Ids(once)) = Len(once))
    /\ [][OnSnapshot =>
             /\ applications' = SnapshotHandled(<<>>, QueryWindow(docs))
             /\ Cardinality(Ids(applications')) = Len(applications')]_vars

C20_Witness ==
    /\ subscription = "live"
    /\ applications # <<>>
    /\ PendingRows(QueryWindow(docs)) # <<>>
    /\ Ids(applications) \cap Ids(PendingRows(QueryWindow(docs))) = {}
    /\ actionError = NoError

\* C15: a step that changes userData.handle while the screen is mounted leaves
\* in history the persisted slice of the new handle, the empty sequence when the
\* handle is empty or the store holds no slice or no entry at all.
C15_HistoryFollowsIdentity ==
    [][(mounted' /\ userData'.handle # userData.handle) =>
          history' = PersistedSlice(storage', HandleKey(userData'.handle))]_vars

\* C16: a tick taken at deadline - now = d >= 0 shows (h, m, s) with
\* 0 <= m < 60, 0 <= s < 60, h >= 0 and h*3600 + m*60 + s = floor(d / 1000).
C16_FloorDecomposition ==
    [][(Tick /\ PRESALE_END_TIME - now >= 0) =>
          /\ timeLeft'.tag = "HMS"
          /\ timeLeft'.h >= 0
          /\ timeLeft'.m \in 0..59
          /\ timeLeft'.s \in 0..59
          /\ timeLeft'.h * 3600 + timeLeft'.m * 60 + timeLeft'.s
               = (PRESALE_END_TIME - now) \div 1000]_vars

\* C17: a submitTx taken at now > PRESALE_END_TIME reports PHASE_END and
\* appends nothing; no Submission of the ledger has a timestamp later than the
\* deadline.
C17_NoAppendAfterDeadline ==
    [][(submitTx /\ now > PRESALE_END_TIME) =>
          /\ notification' = Notice("PHASE_END", "ERROR")
          /\ UNCHANGED <<history, storage>>]_vars

\* C18: when handleVerify succeeds and the key under which the session loads
\* and appends is a handle of the allocation table, the session's wallet is the
\* recorded wallet and the cap resolved is the recorded cap.
C18_NoBypassByNormalization ==
    [][(handleVerify /\ view' = "CONTRIBUTE"
          /\ HandleKey(userData'.handle) \in DOMAIN MOCK_JUNGLE_DB) =>
          LET recorded == MOCK_JUNGLE_DB[HandleKey(userData'.handle)] IN
            /\ userData'.wallet = recorded.wallet
            /\ detectedCap' = recorded.commit
            /\ userData'.actualCommit = recorded.commit]_vars

\* every id persisted under some handle
PersistedIds ==
    UNION {{storage.data[k][i].id : i \in DOMAIN storage.data[k]} :
             k \in DOMAIN storage.data}

\* C19: every submission either tab has appended is in the persisted ledger.
C19_NoLostAppend == 1..uuidSeq \subseteq PersistedIds

\* no timer or listener is held beyond the one its mounted screen holds now
C21_Held ==
    /\ intervals = (IF timerActive THEN 1 ELSE 0)
    /\ listeners = (IF subscription = "live" THEN 1 ELSE 0)
    /\ authListeners = (IF adminMounted THEN 1 ELSE 0)
    /\ ~mounted => intervals = 0
    /\ ~adminMounted => listeners = 0
    /\ Screen # "AUTHENTICATED_ALLOWED" => listeners = 0

\* C21: a mounted PresaleScreen holds at most one countdown interval; a mounted
\* AdminScreen holds at most one snapshot listener and one auth listener; an
\* unmounted screen holds none, and no snapshot listener is held unless the
\* screen is AUTHENTICATED_ALLOWED; a tick, a snapshot callback or an auth
\* callback runs only in a mounted screen that still holds its timer or listener.
C21_NothingLeaked ==
    /\ []C21_Held
    /\ [][/\ Tick => mounted /\ intervals = 1
          /\ (OnSnapshot \/ OnSnapshotError) =>
               adminMounted /\ Screen = "AUTHENTICATED_ALLOWED" /\ listeners = 1
          /\ OnAuthStateChanged => adminMounted /\ authListeners = 1]_vars

C21_Witness ==
    /\ ~mounted
    /\ ~adminMounted
    /\ IsAllowedFor(session, adminEmail)
    /\ docs # <<>>
    /\ now > PRESALE_END_TIME
    /\ intervals = 0 /\ listeners = 0 /\ authListeners = 0

\* C22: when updateDoc rejects, no record changes, actionError becomes the
\* store's message, or UPDATE_FAILED when it has none, and the write is dropped:
\* it is not outstanding any more, and only updateStatus issues a write.
C22_FailedWriteIsNotRetried ==
    [][/\ UpdateFails =>
            /\ docs' = docs
            /\ actionError' \in (ErrorMessages \ {""}) \cup {"UPDATE_FAILED"}
            /\ writes' = Tail(writes)
       /\ (\E i \in DOMAIN writes' : i > Len(writes) \/ writes'[i] \notin Range(writes))
            => updateStatus]_vars

C22_Witness ==
    /\ actionError = "UPDATE_FAILED"
    /\ writes = <<>>
    /\ applications # <<>>
    /\ \A i \in DOMAIN docs : docs[i].status \notin Terminal /\ docs[i].reviewer = <<>>

\* C23: a successful submitTx for the handle with key k leaves the persisted
\* slice of every other key as it was, adds no key but k, and makes the slice
\* of k the new in-memory ledger; a submitTx that reports PHASE_END or
\* HASH_INVALID leaves the persisted store and history as they were.
C23_AppendReplacesOneSlice ==
    [][submitTx =>
          LET k == HandleKey(userData.handle) IN
            IF notification' = Notice("TRANSMISSION_COMPLETE", "SUCCESS")
            THEN /\ storage'.present
                 /\ DOMAIN storage'.data = DOMAIN storage.data \cup {k}
                 /\ \A j \in DOMAIN storage.data \ {k} :
                      storage'.data[j] = storage.data[j]
                 /\ storage'.data[k] = history'
            ELSE /\ notification'.type = "ERROR"
                 /\ notification'.message \in {"PHASE_END", "HASH_INVALID"}
                 /\ UNCHANGED <<history, storage>>]_vars

C23_Witness ==
    /\ storage.present
    /\ H_monky_king \in DOMAIN storage.data
    /\ storage.data[H_monky_king] = <<OldSubmission>>
    /\ \E k \in DOMAIN storage.data :
         k # H_monky_king /\ Len(storage.data[k]) = 1 /\ storage.data[k] = history

Min(a, b) == IF a < b THEN a ELSE b

\* C24: in the CONTRIBUTE view amount never exceeds detectedCap, whatever text
\* handleAmountChange was given; handleAmountBlur leaves an amount of at least
\* the smaller of MinAmount and detectedCap, a multiple of 0.001.
C24_AmountWithinCap ==
    /\ [](view = "CONTRIBUTE" => amount <= detectedCap)
    /\ [][handleAmountBlur =>
             /\ amount' >= Min(MinAmount, detectedCap)
             /\ amount' <= detectedCap
             /\ amount' % 10 = 0]_vars

C24_Witness ==
    /\ view = "CONTRIBUTE"
    /\ detectedCap = MOCK_JUNGLE_DB[H_monky_king].commit
    /\ amount = MinAmount

\* C25: handleVerify reports CREDENTIALS_MISSING when the handle or the wallet
\* is empty after normalization, else FORMAT_ERROR when the wallet is not a
\* Solana address, else SECURITY_WARNING when the handle has a record whose
\* wallet differs; each of the three changes the notification only. Otherwise
\* it succeeds, and only a successful handleVerify takes the view from VERIFY
\* to CONTRIBUTE.
C25_FailedVerifyChangesNothing ==
    [][/\ handleVerify =>
            LET missing == NormalHandle = <<>> \/ NormalWallet = <<>>
                malformed == ~(Len(NormalWallet) \in 32..44
                               /\ Range(NormalWallet) \subseteq Base58)
                known == NormalHandle \in DOMAIN MOCK_JUNGLE_DB \cup InheritedKeys
                mismatch == known /\ Record(NormalHandle).wallet # NormalWallet
                failed == notification'.type = "ERROR"
            IN  /\ missing => notification' = Notice("CREDENTIALS_MISSING", "ERROR")
                /\ (~missing /\ malformed) =>
                     notification' = Notice("FORMAT_ERROR", "ERROR")
                /\ (~missing /\ ~malformed /\ mismatch) =>
                     notification' = Notice("SECURITY_WARNING", "ERROR")
                /\ failed <=> (missing \/ malformed \/ mismatch)
                /\ failed =>
                     /\ view' = "VERIFY"
                     /\ UNCHANGED <<detectedCap, amount, history, userData, storage>>
                /\ ~failed =>
                     /\ view' = "CONTRIBUTE"
                     /\ notification' = Notice("UPLINK_STABLE", "SUCCESS")
       /\ (view = "VERIFY" /\ view' = "CONTRIBUTE") =>
            handleVerify /\ notification' = Notice("UPLINK_STABLE", "SUCCESS")]_vars

C25_Witness ==
    /\ view = "VERIFY"
    /\ NormalHandle = H_monky_king
    /\ NormalWallet = <<"0","x","b","a","d">>
    /\ notification = Notice("FORMAT_ERROR", "ERROR")
    /\ userData = EmptyUser
    /\ amount = InitialAmount

====
